---- MODULE Spec2Model ----
(***************************************************************************)
(* Model of rules.py: the source hierarchy (DataSource), the confirmation  *)
(* policy (ConfirmationStatus, DataRules) and the reconciler               *)
(* (select_most_relevant_data).                                            *)
(*                                                                         *)
(* The state is one call frame of a sequential caller: the function that   *)
(* is called, its arguments, the caller's observation objects (heap) and   *)
(* the list holding references to them (data_points), the outcome of the   *)
(* call, and the one class attribute the module keeps                      *)
(* (DataRules.SOURCE_TO_CONFIRMATION).                                     *)
(***************************************************************************)
EXTENDS Integers, Sequences, FiniteSets, TLC

VARIABLES
    pc,                     \* "idle" | "called" | "returned"
    fn,                     \* name of the function of the current call
    args,                   \* tag arguments of a helper call
    heap,                   \* the caller's observation dicts, by reference
    data_points,            \* the caller's list: a sequence of references
    outcome,                \* how the call ended: a return value or an exception
    SOURCE_TO_CONFIRMATION  \* class attribute DataRules.SOURCE_TO_CONFIRMATION

vars == <<pc, fn, args, heap, data_points, outcome, SOURCE_TO_CONFIRMATION>>

(***************************************************************************)
(* Bounds of the model.                                                    *)
(***************************************************************************)
MaxLen == 3
MaxTime == 1

(***************************************************************************)
(* Enum members. Members of different Enum classes never compare equal,    *)
(* so DataSource.MANUAL_CONFIRMED and ConfirmationStatus.MANUAL_CONFIRMED  *)
(* are different tags.                                                     *)
(***************************************************************************)
DataSource ==
    { "DataSource.FSIN", "DataSource.ROSSTAT", "DataSource.AUDIT_RU",
      "DataSource.MANUAL_CONFIRMED", "DataSource.MANUAL_UNCONFIRMED" }

ConfirmationStatus ==
    { "ConfirmationStatus.CONFIRMED", "ConfirmationStatus.MANUAL_CONFIRMED",
      "ConfirmationStatus.MANUAL_UNCONFIRMED" }

\* A loosely typed tag: the label string passed in place of the Enum member.
ForeignTag == "str:FSIN"

\* What a caller may pass where a tag is expected.
AnyTag == DataSource \cup ConfirmationStatus \cup {ForeignTag}

\* What a caller may put under 'source' of an observation.
AnySource == DataSource \cup {ForeignTag}

Timestamps == 0..MaxTime

\* The opaque payload under 'data'; the code never reads it.
Payloads == {"payload"}

\* An observation dict: {'data': ..., 'source': ..., 'timestamp': ...}.
Observation == [data : Payloads, source : AnySource, timestamp : Timestamps]

(***************************************************************************)
(* Outcomes of a call.                                                     *)
(***************************************************************************)
None == [kind |-> "none"]

Return(v) == [kind |-> "return", value |-> v]

Raise(e) == [kind |-> "raise", exc |-> e]

(***************************************************************************)
(* Python list primitives.                                                 *)
(***************************************************************************)
\* list.index(x): the 0-based position of the first occurrence, else ValueError.
list_index(list, x) ==
    IF \E i \in 1..Len(list) : list[i] = x
    THEN Return((CHOOSE i \in 1..Len(list) :
                    /\ list[i] = x
                    /\ \A j \in 1..(i - 1) : list[j] # x) - 1)
    ELSE Raise("ValueError")

\* list[0]: the first element, else IndexError.
list_first(list) ==
    IF Len(list) >= 1 THEN Return(list[1]) ELSE Raise("IndexError")

list_reverse(list) == [i \in 1..Len(list) |-> list[Len(list) + 1 - i]]

\* list.sort(key=...): stable, ascending; built by inserting each element after
\* the elements already placed whose key is not greater.
RECURSIVE list_sort(_, _)
list_sort(list, key) ==
    IF list = <<>> THEN <<>>
    ELSE LET n    == Len(list)
             x    == list[n]
             rest == list_sort(SubSeq(list, 1, n - 1), key)
             p    == Cardinality({i \in 1..Len(rest) : key[rest[i]] <= key[x]})
         IN  SubSeq(rest, 1, p) \o <<x>> \o SubSeq(rest, p + 1, Len(rest))

\* sorted(list, key=..., reverse=...): a new list; with reverse the list is
\* reversed, sorted, and reversed again, which keeps equal keys in input order.
sorted(list, key, reverse) ==
    IF reverse
    THEN list_reverse(list_sort(list_reverse(list), key))
    ELSE list_sort(list, key)

(***************************************************************************)
(* DataSource.get_hierarchy_priority                                       *)
(***************************************************************************)
\* The list with one member written twice and another left out.
hierarchy_order_duplicate ==
    << "DataSource.FSIN", "DataSource.ROSSTAT", "DataSource.ROSSTAT",
       "DataSource.MANUAL_CONFIRMED", "DataSource.MANUAL_UNCONFIRMED" >>

hierarchy_order ==
    << "DataSource.FSIN", "DataSource.ROSSTAT", "DataSource.AUDIT_RU",
       "DataSource.MANUAL_CONFIRMED", "DataSource.MANUAL_UNCONFIRMED" >>

get_hierarchy_priority(source) == list_index(hierarchy_order, source)

(***************************************************************************)
(* ConfirmationStatus.get_confirmation_priority                            *)
(***************************************************************************)
confirmation_order ==
    << "ConfirmationStatus.CONFIRMED", "ConfirmationStatus.MANUAL_CONFIRMED",
       "ConfirmationStatus.MANUAL_UNCONFIRMED" >>

get_confirmation_priority(status) == list_index(confirmation_order, status)

(***************************************************************************)
(* DataRules                                                               *)
(***************************************************************************)
\* The statuses of the two manual sources exchanged.
SOURCE_TO_CONFIRMATION_swapped ==
    [s \in DataSource |->
        CASE s = "DataSource.FSIN"               -> "ConfirmationStatus.CONFIRMED"
          [] s = "DataSource.ROSSTAT"            -> "ConfirmationStatus.CONFIRMED"
          [] s = "DataSource.AUDIT_RU"           -> "ConfirmationStatus.CONFIRMED"
          [] s = "DataSource.MANUAL_CONFIRMED"   -> "ConfirmationStatus.MANUAL_UNCONFIRMED"
          [] s = "DataSource.MANUAL_UNCONFIRMED" -> "ConfirmationStatus.MANUAL_CONFIRMED"]

\* The entry of DataSource.MANUAL_CONFIRMED keyed by the ConfirmationStatus
\* member of the same name.
SOURCE_TO_CONFIRMATION_wrong_key ==
    [s \in (DataSource \ {"DataSource.MANUAL_CONFIRMED"})
                \cup {"ConfirmationStatus.MANUAL_CONFIRMED"} |->
        CASE s = "DataSource.FSIN"                     -> "ConfirmationStatus.CONFIRMED"
          [] s = "DataSource.ROSSTAT"                  -> "ConfirmationStatus.CONFIRMED"
          [] s = "DataSource.AUDIT_RU"                 -> "ConfirmationStatus.CONFIRMED"
          [] s = "ConfirmationStatus.MANUAL_CONFIRMED" -> "ConfirmationStatus.MANUAL_CONFIRMED"
          [] s = "DataSource.MANUAL_UNCONFIRMED"       -> "ConfirmationStatus.MANUAL_UNCONFIRMED"]

SOURCE_TO_CONFIRMATION_init ==
    [s \in DataSource |->
        CASE s = "DataSource.FSIN"               -> "ConfirmationStatus.CONFIRMED"
          [] s = "DataSource.ROSSTAT"            -> "ConfirmationStatus.CONFIRMED"
          [] s = "DataSource.AUDIT_RU"           -> "ConfirmationStatus.CONFIRMED"
          [] s = "DataSource.MANUAL_CONFIRMED"   -> "ConfirmationStatus.MANUAL_CONFIRMED"
          [] s = "DataSource.MANUAL_UNCONFIRMED" -> "ConfirmationStatus.MANUAL_UNCONFIRMED"]

\* cls.SOURCE_TO_CONFIRMATION.get(source, default) in place of the subscript.
get_confirmation_status_default(cls, source) ==
    IF source \in DOMAIN cls
    THEN Return(cls[source])
    ELSE Return("ConfirmationStatus.MANUAL_UNCONFIRMED")

\* cls.SOURCE_TO_CONFIRMATION[source]: KeyError when the dict has no such key.
get_confirmation_status(cls, source) ==
    IF source \in DOMAIN cls THEN Return(cls[source]) ELSE Raise("KeyError")

\* The first test written with <= in place of <.
compare_data_sources_le(source1, source2) ==
    LET priority1 == get_hierarchy_priority(source1)
        priority2 == get_hierarchy_priority(source2)
    IN  IF priority1.kind = "raise" THEN priority1
        ELSE IF priority2.kind = "raise" THEN priority2
        ELSE IF priority1.value <= priority2.value THEN Return(-1)
        ELSE IF priority1.value > priority2.value THEN Return(1)
        ELSE Return(0)

compare_data_sources(source1, source2) ==
    LET priority1 == get_hierarchy_priority(source1)
        priority2 == get_hierarchy_priority(source2)
    IN  IF priority1.kind = "raise" THEN priority1
        ELSE IF priority2.kind = "raise" THEN priority2
        ELSE IF priority1.value < priority2.value THEN Return(-1)
        ELSE IF priority1.value > priority2.value THEN Return(1)
        ELSE Return(0)

compare_confirmation_status(status1, status2) ==
    LET priority1 == get_confirmation_priority(status1)
        priority2 == get_confirmation_priority(status2)
    IN  IF priority1.kind = "raise" THEN priority1
        ELSE IF priority2.kind = "raise" THEN priority2
        ELSE IF priority1.value < priority2.value THEN Return(-1)
        ELSE IF priority1.value > priority2.value THEN Return(1)
        ELSE Return(0)

(***************************************************************************)
(* select_most_relevant_data, step by step. Lists hold references into     *)
(* heap, so the element that is returned is one of the caller's objects.   *)
(***************************************************************************)
\* Step 1: the loop that fills confirmation_groups. The first lookup that
\* fails ends the call; otherwise each status that occurs maps to the points
\* of that status, in input order.
confirmation_groups(cls, points, objs) ==
    LET status(i) == get_confirmation_status(cls, objs[points[i]].source)
        failing   == {i \in 1..Len(points) : status(i).kind = "raise"}
    IN  IF failing # {}
        THEN status(CHOOSE i \in failing : \A j \in failing : i <= j)
        ELSE LET present == {status(i).value : i \in 1..Len(points)}
             IN  Return([st \in present |->
                            SelectSeq(points,
                                LAMBDA r : get_confirmation_status(cls, objs[r].source)
                                               = Return(st))])

\* max() in place of min().
best_confirmation_max(groups) ==
    LET keys == DOMAIN groups
    IN  IF keys = {} \/ \E s \in keys : get_confirmation_priority(s).kind = "raise"
        THEN Raise("ValueError")
        ELSE Return(CHOOSE s \in keys : \A t \in keys :
                        get_confirmation_priority(s).value
                            >= get_confirmation_priority(t).value)

\* Step 2: min(confirmation_groups.keys(), key=get_confirmation_priority).
\* min() of nothing is a ValueError, and so is a key that cannot be ranked.
best_confirmation(groups) ==
    LET keys == DOMAIN groups
    IN  IF keys = {} \/ \E s \in keys : get_confirmation_priority(s).kind = "raise"
        THEN Raise("ValueError")
        ELSE Return(CHOOSE s \in keys : \A t \in keys :
                        get_confirmation_priority(s).value
                            <= get_confirmation_priority(t).value)

\* The sort by source left out: the candidates stay in input order.
source_priority_candidates_unsorted(candidates, objs) ==
    Return(candidates)

\* Step 4: sorted(candidates, key=get_hierarchy_priority of the source).
source_priority_candidates(candidates, objs) ==
    LET refs == {candidates[i] : i \in 1..Len(candidates)}
    IN  IF \E r \in refs : get_hierarchy_priority(objs[r].source).kind = "raise"
        THEN Raise("ValueError")
        ELSE Return(sorted(candidates,
                           [r \in refs |-> get_hierarchy_priority(objs[r].source).value],
                           FALSE))

\* The filter written with < in place of ==.
best_source_candidates_lt(sorted_candidates, objs) ==
    LET best_source_priority ==
            get_hierarchy_priority(objs[sorted_candidates[1]].source)
    IN  SelectSeq(sorted_candidates,
            LAMBDA r : get_hierarchy_priority(objs[r].source).value
                           < best_source_priority.value)

\* Step 5: the candidates whose priority equals that of the first sorted one.
best_source_candidates(sorted_candidates, objs) ==
    LET best_source_priority ==
            get_hierarchy_priority(objs[sorted_candidates[1]].source)
    IN  SelectSeq(sorted_candidates,
            LAMBDA r : get_hierarchy_priority(objs[r].source) = best_source_priority)

KeyTimestamp(list, objs) ==
    [r \in {list[i] : i \in 1..Len(list)} |-> objs[r].timestamp]

\* reverse=True left out: oldest first.
final_candidates_ascending(best_candidates, objs) ==
    sorted(best_candidates, KeyTimestamp(best_candidates, objs), FALSE)

\* Sorted oldest first and then turned round, in place of reverse=True: equal
\* timestamps come out in the opposite of input order.
final_candidates_turned(best_candidates, objs) ==
    list_reverse(sorted(best_candidates, KeyTimestamp(best_candidates, objs), FALSE))

\* Step 7: sorted(best_source_candidates, key=timestamp, reverse=True).
final_candidates(best_candidates, objs) ==
    sorted(best_candidates, KeyTimestamp(best_candidates, objs), TRUE)

\* Steps 1 to 7 on a list that is not empty.
select_cascade(cls, points, objs) ==
    LET groups == confirmation_groups(cls, points, objs)
    IN  IF groups.kind = "raise" THEN groups
        ELSE LET best == best_confirmation(groups.value)
             IN  IF best.kind = "raise" THEN best
                 ELSE LET candidates == groups.value[best.value]
                      IN  IF Len(candidates) = 1 THEN Return(candidates[1])
                          ELSE LET by_source == source_priority_candidates(candidates, objs)
                               IN  IF by_source.kind = "raise" THEN by_source
                                   ELSE LET best_source == best_source_candidates(by_source.value, objs)
                                        IN  IF Len(best_source) = 1
                                            THEN Return(best_source[1])
                                            ELSE list_first(final_candidates(best_source, objs))

\* None (reference 0, no object) returned for an empty list in place of the raise.
select_outcome_sentinel(cls, points, objs) ==
    IF points = <<>> THEN Return(0) ELSE select_cascade(cls, points, objs)

\* The outcome of the call: ValueError for an empty list, else the cascade.
select_outcome(cls, points, objs) ==
    IF points = <<>> THEN Raise("ValueError") ELSE select_cascade(cls, points, objs)

\* data_points.sort(key=timestamp, reverse=True) on the caller's list before
\* the cascade, in place of sorted() on a copy.
select_most_relevant_data_in_place(cls, points, objs) ==
    LET sorted_points ==
            list_reverse(list_sort(list_reverse(points), KeyTimestamp(points, objs)))
    IN  [outcome     |-> select_outcome(cls, sorted_points, objs),
         data_points |-> sorted_points,
         heap        |-> objs]

\* The whole call: its outcome, and the caller's list and objects as the call
\* leaves them. Every list the function builds is a new one (a group list,
\* sorted(), a comprehension), and no dict is written.
select_most_relevant_data(cls, points, objs) ==
    [outcome     |-> select_outcome(cls, points, objs),
     data_points |-> points,
     heap        |-> objs]

(***************************************************************************)
(* The caller.                                                             *)
(***************************************************************************)
Init ==
    /\ pc = "idle"
    /\ fn = "none"
    /\ args = <<>>
    /\ heap = <<>>
    /\ data_points = <<>>
    /\ outcome = None
    /\ SOURCE_TO_CONFIRMATION = SOURCE_TO_CONFIRMATION_init

\* The caller builds a list of up to MaxLen observations and calls
\* select_most_relevant_data with it.
Call_select ==
    /\ pc = "idle"
    /\ \E n \in 0..MaxLen : \E objs \in [1..n -> Observation] :
          /\ heap' = objs
          /\ data_points' = [i \in 1..n |-> i]
    /\ pc' = "called"
    /\ fn' = "select_most_relevant_data"
    /\ args' = <<>>
    /\ outcome' = None
    /\ UNCHANGED SOURCE_TO_CONFIRMATION

\* select_most_relevant_data runs to its end.
Return_select ==
    /\ pc = "called"
    /\ fn = "select_most_relevant_data"
    /\ LET r == select_most_relevant_data(SOURCE_TO_CONFIRMATION, data_points, heap)
       IN  /\ outcome' = r.outcome
           /\ data_points' = r.data_points
           /\ heap' = r.heap
    /\ pc' = "returned"
    /\ UNCHANGED <<fn, args, SOURCE_TO_CONFIRMATION>>

\* A call of a function that takes tags: it holds no observation list.
HelperCall(name, arguments, result) ==
    /\ pc = "idle"
    /\ pc' = "returned"
    /\ fn' = name
    /\ args' = arguments
    /\ outcome' = result
    /\ heap' = <<>>
    /\ data_points' = <<>>
    /\ UNCHANGED SOURCE_TO_CONFIRMATION

Call_get_hierarchy_priority ==
    \E source \in AnyTag :
        HelperCall("get_hierarchy_priority", <<source>>,
                   get_hierarchy_priority(source))

Call_get_confirmation_priority ==
    \E status \in AnyTag :
        HelperCall("get_confirmation_priority", <<status>>,
                   get_confirmation_priority(status))

Call_get_confirmation_status ==
    \E source \in AnyTag :
        HelperCall("get_confirmation_status", <<source>>,
                   get_confirmation_status(SOURCE_TO_CONFIRMATION, source))

Call_compare_data_sources ==
    \E source1 \in AnyTag : \E source2 \in AnyTag :
        HelperCall("compare_data_sources", <<source1, source2>>,
                   compare_data_sources(source1, source2))

Call_compare_confirmation_status ==
    \E status1 \in AnyTag : \E status2 \in AnyTag :
        HelperCall("compare_confirmation_status", <<status1, status2>>,
                   compare_confirmation_status(status1, status2))

\* The caller has used the outcome and drops the frame: the observations are
\* consumed by one call and then discarded.
Discard ==
    /\ pc = "returned"
    /\ pc' = "idle"
    /\ fn' = "none"
    /\ args' = <<>>
    /\ heap' = <<>>
    /\ data_points' = <<>>
    /\ outcome' = None
    /\ UNCHANGED SOURCE_TO_CONFIRMATION

Next ==
    \/ Call_select
    \/ Return_select
    \/ Call_get_hierarchy_priority
    \/ Call_get_confirmation_priority
    \/ Call_get_confirmation_status
    \/ Call_compare_data_sources
    \/ Call_compare_confirmation_status
    \/ Discard

Spec == Init /\ [][Next]_vars

(***************************************************************************)
(* Callers that keep the input contract: a non-empty list whose            *)
(* observations all carry a DataSource member (SpecValid), and one in      *)
(* which, besides, no two observations have the same source and the same   *)
(* timestamp (SpecNoTie).                                                  *)
(***************************************************************************)
ValidObservation == [data : Payloads, source : DataSource, timestamp : Timestamps]

Call_select_valid ==
    /\ pc = "idle"
    /\ \E n \in 1..MaxLen : \E objs \in [1..n -> ValidObservation] :
          /\ heap' = objs
          /\ data_points' = [i \in 1..n |-> i]
    /\ pc' = "called"
    /\ fn' = "select_most_relevant_data"
    /\ args' = <<>>
    /\ outcome' = None
    /\ UNCHANGED SOURCE_TO_CONFIRMATION

Call_select_no_tie ==
    /\ pc = "idle"
    /\ \E n \in 1..MaxLen : \E objs \in [1..n -> ValidObservation] :
          /\ \A i \in 1..n : \A j \in 1..n : objs[i] = objs[j] => i = j
          /\ heap' = objs
          /\ data_points' = [i \in 1..n |-> i]
    /\ pc' = "called"
    /\ fn' = "select_most_relevant_data"
    /\ args' = <<>>
    /\ outcome' = None
    /\ UNCHANGED SOURCE_TO_CONFIRMATION

NextValid ==
    \/ Call_select_valid
    \/ Return_select
    \/ Discard

SpecValid == Init /\ [][NextValid]_vars

NextNoTie ==
    \/ Call_select_no_tie
    \/ Return_select
    \/ Discard

SpecNoTie == Init /\ [][NextNoTie]_vars

(***************************************************************************)
(* Vocabulary of the properties.                                           *)
(***************************************************************************)
SelectReturned == pc = "returned" /\ fn = "select_most_relevant_data"

Positions == 1..Len(data_points)

InputRefs == {data_points[i] : i \in Positions}

\* A non-empty list whose observations all carry a DataSource member.
ValidInput ==
    /\ data_points # <<>>
    /\ \A i \in Positions : heap[data_points[i]].source \in DataSource

SelectReturnedValid == SelectReturned /\ ValidInput

StatusRank(r) ==
    get_confirmation_priority(SOURCE_TO_CONFIRMATION[heap[r].source]).value

SourceRank(r) == get_hierarchy_priority(heap[r].source).value

\* The observations of the best confirmation status present.
BestStatus == {r \in InputRefs : \A q \in InputRefs : StatusRank(r) <= StatusRank(q)}

\* Among them, those of the best source rank.
BestSource == {r \in BestStatus : \A q \in BestStatus : SourceRank(r) <= SourceRank(q)}

\* Among them, those of the latest timestamp.
Latest ==
    {r \in BestSource : \A q \in BestSource : heap[r].timestamp >= heap[q].timestamp}

FirstPosition(refs) ==
    CHOOSE i \in Positions :
        /\ data_points[i] \in refs
        /\ \A j \in Positions : data_points[j] \in refs => i <= j

(***************************************************************************)
(* C1: for every non-empty input whose sources are all DataSource members, *)
(* select_most_relevant_data returns, and what it returns is one of the    *)
(* elements of the input list itself.                                      *)
(***************************************************************************)
C1_ReturnsInputElement ==
    SelectReturnedValid =>
        /\ outcome.kind = "return"
        /\ outcome.value \in InputRefs

\* Three observations of one source: the call goes through both sorts.
C1_Witness ==
    /\ SelectReturnedValid
    /\ Len(data_points) = 3
    /\ \A i \in Positions : heap[data_points[i]].source = "DataSource.ROSSTAT"
    /\ heap[data_points[1]].timestamp < heap[data_points[2]].timestamp
    /\ outcome = Return(data_points[2])

(***************************************************************************)
(* C2: for every valid input, the confirmation-status rank of the returned *)
(* observation is at most that of every observation of the input.          *)
(***************************************************************************)
C2_BestConfirmationWins ==
    SelectReturnedValid =>
        /\ outcome.kind = "return"
        /\ \A r \in InputRefs : StatusRank(outcome.value) <= StatusRank(r)

\* A manually unconfirmed observation that is newer loses to a confirmed one.
C2_Witness ==
    /\ SelectReturnedValid
    /\ Len(data_points) = 2
    /\ heap[data_points[1]].source = "DataSource.MANUAL_UNCONFIRMED"
    /\ heap[data_points[2]].source = "DataSource.MANUAL_CONFIRMED"
    /\ heap[data_points[1]].timestamp > heap[data_points[2]].timestamp
    /\ outcome = Return(data_points[2])

(***************************************************************************)
(* C3: for every valid input, among the observations of the best           *)
(* confirmation status present, the returned one has the lowest source     *)
(* rank, whatever the timestamps.                                          *)
(***************************************************************************)
C3_BestSourceWins ==
    SelectReturnedValid =>
        /\ outcome.kind = "return"
        /\ outcome.value \in BestStatus
        /\ \A r \in BestStatus : SourceRank(outcome.value) <= SourceRank(r)

\* Two confirmed sources: the older observation of the higher source wins over
\* the newer one of the lower source, which comes first in the list.
C3_Witness ==
    /\ SelectReturnedValid
    /\ Len(data_points) = 3
    /\ heap[data_points[1]].source = "DataSource.ROSSTAT"
    /\ heap[data_points[2]].source = "DataSource.FSIN"
    /\ heap[data_points[3]].source = "DataSource.MANUAL_UNCONFIRMED"
    /\ heap[data_points[1]].timestamp > heap[data_points[2]].timestamp
    /\ outcome = Return(data_points[2])

(***************************************************************************)
(* C4: for every valid input, the timestamp of the returned observation is *)
(* at least that of every observation that has both the best confirmation  *)
(* status and the best source rank within it.                              *)
(***************************************************************************)
C4_LatestTimestampWins ==
    SelectReturnedValid =>
        /\ outcome.kind = "return"
        /\ \A r \in BestSource : heap[outcome.value].timestamp >= heap[r].timestamp

\* Same source twice, the later one second.
C4_Witness ==
    /\ SelectReturnedValid
    /\ Len(data_points) = 2
    /\ heap[data_points[1]].source = heap[data_points[2]].source
    /\ heap[data_points[1]].timestamp < heap[data_points[2]].timestamp
    /\ outcome = Return(data_points[2])

(***************************************************************************)
(* C5: when several observations of the final subset (best confirmation    *)
(* status, best source rank) share the maximum timestamp, the one that     *)
(* occurs earliest in the input list is returned.                          *)
(***************************************************************************)
C5_TieGoesToEarliest ==
    (SelectReturnedValid /\ Cardinality(Latest) >= 2) =>
        outcome = Return(data_points[FirstPosition(Latest)])

\* The tie is between the second and third element; the first is of a lower
\* source, so the sort by source moves the tied ones to the front.
C5_Witness ==
    /\ SelectReturnedValid
    /\ Len(data_points) = 3
    /\ heap[data_points[1]].source = "DataSource.AUDIT_RU"
    /\ heap[data_points[2]].source = "DataSource.ROSSTAT"
    /\ heap[data_points[3]].source = "DataSource.ROSSTAT"
    /\ heap[data_points[2]].timestamp = heap[data_points[3]].timestamp
    /\ Latest = {data_points[2], data_points[3]}
    /\ outcome = Return(data_points[2])

(***************************************************************************)
(* C6: select_most_relevant_data called with an empty list raises          *)
(* ValueError; it returns nothing.                                         *)
(***************************************************************************)
C6_EmptyInputRaises ==
    (SelectReturned /\ data_points = <<>>) => outcome = Raise("ValueError")

C6_Witness ==
    /\ SelectReturned
    /\ data_points = <<>>
    /\ outcome.kind = "raise"

(***************************************************************************)
(* C7: a tag outside DataSource is rejected: get_hierarchy_priority raises *)
(* ValueError, get_confirmation_status raises KeyError, and                *)
(* select_most_relevant_data on a non-empty list with such a source at any *)
(* position raises KeyError; select ends in no other way than returning an *)
(* input element, ValueError or KeyError.                                  *)
(***************************************************************************)
C7_ForeignTagRejected ==
    /\ (pc = "returned" /\ fn = "get_hierarchy_priority" /\ args[1] \notin DataSource)
          => outcome = Raise("ValueError")
    /\ (pc = "returned" /\ fn = "get_confirmation_status" /\ args[1] \notin DataSource)
          => outcome = Raise("KeyError")
    /\ (/\ SelectReturned
        /\ data_points # <<>>
        /\ \E i \in Positions : heap[data_points[i]].source \notin DataSource)
          => outcome = Raise("KeyError")
    /\ SelectReturned =>
          \/ outcome = Raise("ValueError")
          \/ outcome = Raise("KeyError")
          \/ outcome.kind = "return" /\ outcome.value \in InputRefs

\* The foreign source is the last of three; the first two are valid.
C7_Witness ==
    /\ SelectReturned
    /\ Len(data_points) = 3
    /\ heap[data_points[1]].source = "DataSource.FSIN"
    /\ heap[data_points[2]].source = "DataSource.MANUAL_CONFIRMED"
    /\ heap[data_points[3]].source = ForeignTag
    /\ outcome = Raise("KeyError")

(***************************************************************************)
(* C8: select_most_relevant_data leaves the caller's list, the             *)
(* observations in it and SOURCE_TO_CONFIRMATION as they were, and its     *)
(* outcome is that of a first call with the same input: it depends on no   *)
(* earlier call.                                                           *)
(***************************************************************************)
C8_NoMutationNoState ==
    /\ [][(pc = "called" /\ fn = "select_most_relevant_data") =>
              /\ data_points' = data_points
              /\ heap' = heap
              /\ SOURCE_TO_CONFIRMATION' = SOURCE_TO_CONFIRMATION]_vars
    /\ [](SOURCE_TO_CONFIRMATION = SOURCE_TO_CONFIRMATION_init)
    /\ [](SelectReturned =>
              outcome = select_outcome(SOURCE_TO_CONFIRMATION_init, data_points, heap))

\* A returned call whose list is ordered neither by source nor by time.
C8_Witness ==
    /\ SelectReturnedValid
    /\ Len(data_points) = 3
    /\ SourceRank(data_points[1]) > SourceRank(data_points[2])
    /\ heap[data_points[2]].timestamp < heap[data_points[3]].timestamp
    /\ outcome.kind = "return"

(***************************************************************************)
(* C9: on members of their tag set, compare_data_sources and               *)
(* compare_confirmation_status return -1, 0 or 1: -1 exactly when the      *)
(* first argument has the lower rank, 1 exactly when the second has, 0     *)
(* exactly when both are the same tag; compare(a, b) = -compare(b, a), and *)
(* 'compare = -1' is a strict total order on each tag set.                 *)
(***************************************************************************)
StrictTotalOrder(S, Less(_, _)) ==
    /\ \A a \in S : ~Less(a, a)
    /\ \A a \in S : \A b \in S : \A c \in S : (Less(a, b) /\ Less(b, c)) => Less(a, c)
    /\ \A a \in S : \A b \in S : a # b => (Less(a, b) \/ Less(b, a))

CompareContract(S, rank(_), compare(_, _)) ==
    (args[1] \in S /\ args[2] \in S) =>
        /\ outcome.kind = "return"
        /\ outcome.value \in {-1, 0, 1}
        /\ outcome.value = -1 <=> rank(args[1]).value < rank(args[2]).value
        /\ outcome.value = 1 <=> rank(args[2]).value < rank(args[1]).value
        /\ outcome.value = 0 <=> args[1] = args[2]
        /\ compare(args[2], args[1]) = Return(-outcome.value)

C9_CompareIsStrictTotalOrder ==
    /\ (pc = "returned" /\ fn = "compare_data_sources") =>
           /\ CompareContract(DataSource, get_hierarchy_priority, compare_data_sources)
           /\ StrictTotalOrder(DataSource,
                  LAMBDA a, b : compare_data_sources(a, b) = Return(-1))
    /\ (pc = "returned" /\ fn = "compare_confirmation_status") =>
           /\ CompareContract(ConfirmationStatus, get_confirmation_priority,
                              compare_confirmation_status)
           /\ StrictTotalOrder(ConfirmationStatus,
                  LAMBDA a, b : compare_confirmation_status(a, b) = Return(-1))

C9_Witness ==
    /\ pc = "returned"
    /\ fn = "compare_data_sources"
    /\ args = <<"DataSource.MANUAL_CONFIRMED", "DataSource.AUDIT_RU">>
    /\ outcome = Return(1)

(***************************************************************************)
(* C10: hierarchy_order is a permutation of the DataSource members:        *)
(* get_hierarchy_priority returns for each of the 5 members, its values    *)
(* are pairwise distinct and are exactly 0..4, and 0 belongs to FSIN.      *)
(***************************************************************************)
C10_HierarchyIsPermutation ==
    (pc = "returned" /\ fn = "get_hierarchy_priority" /\ args[1] \in DataSource) =>
        /\ outcome.kind = "return"
        /\ outcome.value \in 0..4
        /\ outcome.value = 0 <=> args[1] = "DataSource.FSIN"
        /\ hierarchy_order[outcome.value + 1] = args[1]
        /\ \A s \in DataSource \ {args[1]} : get_hierarchy_priority(s) # outcome
        /\ Cardinality(DataSource) = 5
        /\ Len(hierarchy_order) = Cardinality(DataSource)
        /\ {hierarchy_order[i] : i \in 1..Len(hierarchy_order)} = DataSource
        /\ {get_hierarchy_priority(s).value : s \in DataSource} = 0..4

C10_Witness ==
    /\ pc = "returned"
    /\ fn = "get_hierarchy_priority"
    /\ args = <<"DataSource.MANUAL_UNCONFIRMED">>
    /\ outcome = Return(4)

(***************************************************************************)
(* C11: SOURCE_TO_CONFIRMATION is a total function on the DataSource       *)
(* members: its keys are exactly the DataSource members, every value is a  *)
(* ConfirmationStatus member, and get_confirmation_status returns for      *)
(* every DataSource member.                                                *)
(***************************************************************************)
C11_ConfirmationMapIsTotal ==
    (pc = "returned" /\ fn = "get_confirmation_status" /\ args[1] \in DataSource) =>
        /\ outcome.kind = "return"
        /\ outcome.value \in ConfirmationStatus
        /\ outcome.value = SOURCE_TO_CONFIRMATION[args[1]]
        /\ DOMAIN SOURCE_TO_CONFIRMATION = DataSource
        /\ \A s \in DataSource :
              /\ get_confirmation_status(SOURCE_TO_CONFIRMATION, s).kind = "return"
              /\ SOURCE_TO_CONFIRMATION[s] \in ConfirmationStatus

C11_Witness ==
    /\ pc = "returned"
    /\ fn = "get_confirmation_status"
    /\ args = <<"DataSource.MANUAL_CONFIRMED">>
    /\ outcome = Return("ConfirmationStatus.MANUAL_CONFIRMED")
(***************************************************************************)
(* C12: with the configured tables the confirmation-status rank never      *)
(* decreases as the source rank grows, so on every valid input the result  *)
(* is that of the cascade without the confirmation partition (best source  *)
(* rank over the whole input, then latest timestamp, then earliest         *)
(* position), and that of the cascade without the single-survivor returns. *)
(***************************************************************************)
RankIsMonotone ==
    \A s \in DataSource : \A t \in DataSource :
        get_hierarchy_priority(s).value < get_hierarchy_priority(t).value =>
            get_confirmation_priority(SOURCE_TO_CONFIRMATION[s]).value
                <= get_confirmation_priority(SOURCE_TO_CONFIRMATION[t]).value

\* Steps 4 to 7 on a list of candidates, with or without the returns of a
\* single survivor.
CascadeFrom(candidates, short_circuit) ==
    IF short_circuit /\ Len(candidates) = 1 THEN Return(candidates[1])
    ELSE LET best_source ==
                 best_source_candidates(
                     source_priority_candidates(candidates, heap).value, heap)
         IN  IF short_circuit /\ Len(best_source) = 1
             THEN Return(best_source[1])
             ELSE list_first(final_candidates(best_source, heap))

\* The candidates that steps 1 and 2 select.
PartitionCandidates ==
    LET groups == confirmation_groups(SOURCE_TO_CONFIRMATION, data_points, heap).value
    IN  groups[best_confirmation(groups).value]

\* Best source rank over the whole input, then latest timestamp.
BestSourceOverall ==
    {r \in InputRefs : \A q \in InputRefs : SourceRank(r) <= SourceRank(q)}

LatestOverall ==
    {r \in BestSourceOverall :
        \A q \in BestSourceOverall : heap[r].timestamp >= heap[q].timestamp}

C12_PartitionIsRedundant ==
    SelectReturnedValid =>
        /\ RankIsMonotone
        /\ outcome = Return(data_points[FirstPosition(LatestOverall)])
        /\ outcome = CascadeFrom(data_points, TRUE)
        /\ outcome = CascadeFrom(data_points, FALSE)
        /\ outcome = CascadeFrom(PartitionCandidates, FALSE)

\* Three statuses are present and the newest observations are the manual
\* ones; the confirmed group has one member, so step 3 returns it.
C12_Witness ==
    /\ SelectReturnedValid
    /\ Len(data_points) = 3
    /\ heap[data_points[1]].source = "DataSource.MANUAL_UNCONFIRMED"
    /\ heap[data_points[2]].source = "DataSource.AUDIT_RU"
    /\ heap[data_points[3]].source = "DataSource.MANUAL_CONFIRMED"
    /\ heap[data_points[2]].timestamp < heap[data_points[1]].timestamp
    /\ outcome = Return(data_points[2])
(***************************************************************************)
(* C13: for every valid input in which no two observations share both      *)
(* source and timestamp, select_most_relevant_data returns the same        *)
(* observation for every permutation of the input list.                    *)
(***************************************************************************)
\* No two positions hold observations of the same source and timestamp.
NoExactTie ==
    \A i \in Positions : \A j \in Positions :
        (i # j) =>
            \/ heap[data_points[i]].source # heap[data_points[j]].source
            \/ heap[data_points[i]].timestamp # heap[data_points[j]].timestamp

\* Every reordering of the caller's list, over the same objects.
Reorderings ==
    {[i \in Positions |-> data_points[p[i]]] :
        p \in {q \in [Positions -> Positions] :
                   \A i \in Positions : \A j \in Positions :
                       q[i] = q[j] => i = j}}

C13_OrderMattersOnlyOnTies ==
    (SelectReturnedValid /\ NoExactTie) =>
        /\ outcome.kind = "return"
        /\ \A points \in Reorderings :
              select_most_relevant_data(SOURCE_TO_CONFIRMATION, points, heap).outcome
                  = outcome

\* The winner is the last of three: same source as the first, but newer.
C13_Witness ==
    /\ SelectReturnedValid
    /\ NoExactTie
    /\ Len(data_points) = 3
    /\ heap[data_points[1]].source = "DataSource.ROSSTAT"
    /\ heap[data_points[2]].source = "DataSource.AUDIT_RU"
    /\ heap[data_points[3]].source = "DataSource.ROSSTAT"
    /\ heap[data_points[1]].timestamp < heap[data_points[3]].timestamp
    /\ outcome = Return(data_points[3])

====
